---- MODULE Spec2Model ----
(***************************************************************************)
(* A model of the evaluation / generation pipeline (src/evaluate.py) and   *)
(* of the shape-level behaviour of the Transformer building blocks         *)
(* (src/transformer_model.py) of TextualStyleTransfer.                     *)
(*                                                                         *)
(* One behaviour of the model is one call of one entry point: `call` names *)
(* the entry point, the other variables hold its arguments, its locals and *)
(* its result.  Tensors are modelled by their shape and their integer      *)
(* content; Python sequences are 0-based, TLA+ sequences 1-based, and the  *)
(* operators below say which indices they take.                            *)
(***************************************************************************)
EXTENDS Integers, Sequences, FiniteSets, TLC

VARIABLES
    call,                 \* the entry point this behaviour runs
    pc,                   \* position inside the entry point
    ret,                  \* what the call returned / raised: [status, value]
    \* ---- sent2str(sent_as_np, id2word, eos_id)
    sent_as_np,           \* [kind, ndim, data]
    eos_id,               \* [isNone, v]
    \* ---- evaluate / generate_sentences
    data_iter,            \* the finite stream of batches
    TEST_MAX_BATCH_SIZE,  \* params.TEST_MAX_BATCH_SIZE: [isNone, v]
    limit,                \* generate_sentences' limit: [isNone, v]
    i,                    \* enumerate() index of the batch in hand
    training,             \* module mode: TRUE after construction, FALSE after .eval()
    grad_enabled,         \* torch's global gradient mode
    no_grad,              \* the torch.no_grad() context: [active, prev]
    cls_running_loss, rec_running_loss, ent_running_loss,
    rec_acc, cls_acc,     \* each accumulator: the sequence of updates it received
    model_calls,          \* the style labels model_gen was called with, per batch
    test_generated_sentences, test_original_sentences, test_original_labels,
    \* ---- print_generated_test_samples(model_gen, data_iter, TEXT, params, num_senteces)
    batch_size,           \* data_iter.batch_size
    num_senteces,
    stdout,               \* what was printed: one [original, generated] per sentence
    \* ---- MultiHeadedAttention / make_encoder_decoder / StyleTransformer
    d_model, h,
    attn,                 \* the MultiHeadedAttention object: [built, h, d_k]
    \* ---- PositionalEncoding.forward(x)
    pe,                   \* the registered buffer: rows 0 .. max_len-1
    x,                    \* the input, one example: a sequence of rows
    \* ---- StyleDecoder.forward(enc_out, style_preds, src_mask, tgt, tgt_mask)
    enc_out, style_preds, tgt,
    memory, tgt_modified

ctlVars  == <<call, pc, ret>>
sentVars == <<sent_as_np, eos_id>>
loopVars == <<data_iter, TEST_MAX_BATCH_SIZE, limit, i, training, grad_enabled, no_grad>>
accVars  == <<cls_running_loss, rec_running_loss, ent_running_loss, rec_acc, cls_acc>>
genVars  == <<model_calls, test_generated_sentences,
              test_original_sentences, test_original_labels>>
printVars == <<batch_size, num_senteces, stdout>>
ctorVars == <<d_model, h, attn>>
peVars   == <<pe, x>>
decVars  == <<enc_out, style_preds, tgt, memory, tgt_modified>>
vars == <<ctlVars, sentVars, loopVars, accVars, genVars, printVars, ctorVars, peVars, decVars>>

-----------------------------------------------------------------------------
(* Bounds of the model.                                                    *)

MaxLen == 3            \* longest 1-D id array handed to sent2str
MaxExamples == 3       \* most examples in a data stream
MaxSeqLen == 2         \* longest (padded) sequence of a batch
MaxD == 6              \* largest model dimension tried
MaxH == 4              \* largest head count tried
MaxPeLen == 3          \* largest positional table (max_len) tried

-----------------------------------------------------------------------------
(* Python values.                                                          *)

None == [isNone |-> TRUE, v |-> 0]

Some(n) == [isNone |-> FALSE, v |-> n]

\* Python truthiness of an Optional[int]: None and 0 are falsy.
Truthy(o) == ~o.isNone /\ o.v # 0

Ok(v) == [status |-> "ok", value |-> v]

Raised(e) == [status |-> e, value |-> <<>>]

NoRet == [status |-> "running", value |-> <<>>]

Min(a, b) == IF a <= b THEN a ELSE b

\* seq[:k] for k >= 0
Take(seq, k) == SubSeq(seq, 1, Min(k, Len(seq)))

\* seq[:-1]
DropLast(seq) == SubSeq(seq, 1, Len(seq) - 1)

RECURSIVE Flatten(_)
Flatten(ss) == IF Len(ss) = 0 THEN <<>> ELSE Head(ss) \o Flatten(Tail(ss))

\* all sequences over S of length 0 .. n
SeqsUpTo(S, n) == UNION {[1..k -> S] : k \in 0..n}

-----------------------------------------------------------------------------
(* The vocabulary: TEXT.vocab.itos, ids 0-based.                           *)

itos == <<"<unk>", "<eos>", "a">>

Ids == 0..(Len(itos) - 1)

\* id2word[i] / index2word[i]
id2word(id) == itos[id + 1]

\* vocab.stoi['<eos>']
eos_idx == CHOOSE id \in Ids : id2word(id) = "<eos>"

\* " ".join(words)
RECURSIVE Join(_)
Join(words) ==
    IF Len(words) = 0 THEN ""
    ELSE IF Len(words) = 1 THEN words[1]
    ELSE words[1] \o " " \o Join(Tail(words))

-----------------------------------------------------------------------------
(* sent2str, src/evaluate.py:86-98                                         *)

\* np.where(a == e)[0] of a 1-D array: the 0-based positions of e, ascending
RECURSIVE Where1(_, _, _)
Where1(a, e, from) ==
    IF from > Len(a) THEN <<>>
    ELSE (IF a[from] = e THEN <<from - 1>> ELSE <<>>) \o Where1(a, e, from + 1)

\* np.where(a == e)[0] of a 2-D array: the 0-based ROW of every matching
\* element, in row-major order (a row with two matches is listed twice)
RECURSIVE Where2(_, _, _)
Where2(a, e, row) ==
    IF row > Len(a) THEN <<>>
    ELSE [k \in 1..Len(Where1(a[row], e, 1)) |-> row - 1] \o Where2(a, e, row + 1)

NpWhere0(arr, e) ==
    IF arr.ndim = 1 THEN Where1(arr.data, e, 1) ELSE Where2(arr.data, e, 1)

\* lines 91-96: the eos truncation; the guard is the truthiness of eos_id
Sent2StrTruncate(arr, eos) ==
    IF Truthy(eos)
    THEN LET end_id == NpWhere0(arr, eos.v)
         IN  IF Len(end_id) > 1 THEN Take(arr.data, end_id[1])
             ELSE IF Len(end_id) = 1 THEN Take(arr.data, end_id[1])
             ELSE arr.data
    ELSE arr.data

\* a check of the shape instead of the type
IsFlatSequence(arr) == arr.ndim = 1

\* lines 89-90: the only input check
IsNdarray(arr) == arr.kind = "ndarray"

sent2str(arr, eos) ==
    IF ~IsNdarray(arr) THEN Raised("ValueError")
    ELSE LET kept == Sent2StrTruncate(arr, eos)
         IN  IF arr.ndim = 1
             THEN Ok(Join([k \in 1..Len(kept) |-> id2word(kept[k])]))
             \* iterating a 2-D array yields rows; a row is no dictionary key
             ELSE IF Len(kept) > 0 THEN Raised("TypeError")
             ELSE Ok(Join(<<>>))

\* the inputs tried: flat Python lists, 1-D arrays, 2-D arrays of width 2
FlatInputs ==
    {[kind |-> k, ndim |-> 1, data |-> d] :
        k \in {"ndarray", "list"}, d \in SeqsUpTo(Ids, MaxLen)}

MatrixInputs ==
    {[kind |-> "ndarray", ndim |-> 2, data |-> d] :
        d \in SeqsUpTo([1..2 -> Ids], 2)}

EosInputs == {None} \cup {Some(e) : e \in Ids}

Sent2Str ==
    /\ call = "sent2str" /\ pc = "start"
    /\ ret' = sent2str(sent_as_np, eos_id)
    /\ pc' = "done"
    /\ UNCHANGED <<call, printVars, sentVars, loopVars, accVars, genVars,
                   ctorVars, peVars, decVars>>

-----------------------------------------------------------------------------
(* The data stream: a dataset cut into batches of batch_size examples, the *)
(* last batch holding the rest.  A batch is [text, label]: text is B rows  *)
(* of L ids, label is B style labels.                                      *)

RECURSIVE Chunk(_, _)
Chunk(examples, bs) ==
    IF Len(examples) = 0 THEN <<>>
    ELSE <<Take(examples, bs)>> \o
         Chunk(SubSeq(examples, Min(bs, Len(examples)) + 1, Len(examples)), bs)

MkBatch(examples) ==
    [text  |-> [k \in 1..Len(examples) |-> examples[k].text],
     label |-> [k \in 1..Len(examples) |-> examples[k].label]]

Batches(examples, bs) ==
    LET cs == Chunk(examples, bs) IN [k \in 1..Len(cs) |-> MkBatch(cs[k])]

Labels == {0, 1}

BatchSizes == {1, 2}

\* evaluation examples: sentences of one length per stream
EvalExamples(L) == {[text |-> [j \in 1..L |-> 2], label |-> y] : y \in Labels}

EvalStreams ==
    UNION {{Batches(d, bs) : d \in SeqsUpTo(EvalExamples(L), MaxExamples)} :
              L \in 1..MaxSeqLen, bs \in BatchSizes}

\* generation examples: a sentence without eos and one that ends in eos
GenSentences == {<<2, 0>>, <<2, 1>>}

GenExamples == {[text |-> s, label |-> y] : s \in GenSentences, y \in Labels}

GenStreams ==
    UNION {{Batches(d, bs) : d \in SeqsUpTo(GenExamples, MaxExamples)} :
              bs \in BatchSizes}

CapInputs == {None} \cup {Some(k) : k \in 0..(MaxExamples + 1)}

\* batch.text.size(0), batch.text.size(1)
BatchB(batch) == Len(batch.text)

BatchL(batch) == Len(batch.text[1])

-----------------------------------------------------------------------------
(* torch.no_grad() as a context manager (src/evaluate.py:31, :194):        *)
(* __enter__ saves the gradient mode and switches it off, __exit__ puts    *)
(* the saved mode back; Python runs __exit__ however the block is left.    *)

NoGradIdle == [active |-> FALSE, prev |-> TRUE]

NoGradEnter(ge) == [active |-> TRUE, prev |-> ge]

\* a release written at the end of the block, which an exception skips
NoGradLeaveUnlessRaised(ng, how) ==
    IF how = "raise" THEN ng ELSE [active |-> FALSE, prev |-> ng.prev]

\* how: "exhausted", "break" or "raise"
NoGradLeave(ng, how) == [active |-> FALSE, prev |-> ng.prev]

GradAfterLeave(ng, ge, how) == ng.prev

-----------------------------------------------------------------------------
(* evaluate, src/evaluate.py:13-74                                         *)

\* the cap compared one batch late
CapReachedLate(cap, idx) == Truthy(cap) /\ idx = cap.v + 1

\* line 33: the cap ends the loop when it is truthy and equals the index
CapReached(cap, idx) == Truthy(cap) /\ idx = cap.v

\* the (example, position) pairs of a B x |cols| tensor after .view(-1): row-major
RECURSIVE FlatIdx(_, _, _)
FlatIdx(b, B, cols) ==
    IF b >= B THEN <<>>
    ELSE [k \in 1..Len(cols) |-> <<b, cols[k]>>] \o FlatIdx(b + 1, B, cols)

\* positions from .. to-1 as a sequence (a Python range)
Range(from, to) == [k \in 1..(IF to > from THEN to - from ELSE 0) |-> from + k - 1]

\* the k-th prediction is scored against the k-th target
Zip(ps, ts) == [k \in 1..Min(Len(ps), Len(ts)) |-> [pred |-> ps[k], target |-> ts[k]]]

\* lines 53-54: criterion(preds.view(-1, V), src.view(-1))
RecLossPairs(B, L) == Zip(FlatIdx(0, B, Range(0, L)), FlatIdx(0, B, Range(0, L)))

\* the accuracy scored on the same alignment as the loss
RecAccPairsUnshifted(B, L) ==
    Zip(FlatIdx(0, B, Range(0, L)), FlatIdx(0, B, Range(0, L)))

\* lines 62-66: preds[:, 1:, :] against src[:, :-1]
RecAccPairs(B, L) == Zip(FlatIdx(0, B, Range(1, L)), FlatIdx(0, B, Range(0, L - 1)))

EvalBegin ==
    /\ call = "evaluate" /\ pc = "start"
    /\ training' = FALSE
    /\ cls_running_loss' = <<>> /\ rec_running_loss' = <<>> /\ ent_running_loss' = <<>>
    /\ rec_acc' = <<>> /\ cls_acc' = <<>>
    /\ no_grad' = NoGradEnter(grad_enabled)
    /\ grad_enabled' = FALSE
    /\ i' = 0
    /\ pc' = "loop"
    /\ UNCHANGED <<call, ret, data_iter, TEST_MAX_BATCH_SIZE, limit>>
    /\ UNCHANGED <<printVars, sentVars, genVars, ctorVars, peVars, decVars>>

\* the for statement and line 33: take batch i, or leave the loop and the scope
EvalNext ==
    /\ call = "evaluate" /\ pc = "loop"
    /\ IF i < Len(data_iter) /\ ~CapReached(TEST_MAX_BATCH_SIZE, i)
       THEN /\ pc' = "cls"
            /\ UNCHANGED <<no_grad, grad_enabled>>
       ELSE LET how == IF i < Len(data_iter) THEN "break" ELSE "exhausted"
            IN  /\ pc' = "log"
                /\ no_grad' = NoGradLeave(no_grad, how)
                /\ grad_enabled' = GradAfterLeave(no_grad, grad_enabled, how)
    /\ UNCHANGED <<call, ret, data_iter, TEST_MAX_BATCH_SIZE, limit, i, training>>
    /\ UNCHANGED <<printVars, sentVars, accVars, genVars, ctorVars, peVars, decVars>>

\* lines 36-49
EvalClsLoss ==
    /\ call = "evaluate" /\ pc = "cls"
    /\ cls_running_loss' =
          Append(cls_running_loss, [batch |-> i, n |-> BatchB(data_iter[i + 1])])
    /\ pc' = "rec"
    /\ UNCHANGED <<call, ret, loopVars, rec_running_loss, ent_running_loss, rec_acc, cls_acc>>
    /\ UNCHANGED <<printVars, sentVars, genVars, ctorVars, peVars, decVars>>

\* lines 51-55
EvalRecLoss ==
    /\ call = "evaluate" /\ pc = "rec"
    /\ LET b == data_iter[i + 1]
       IN  rec_running_loss' =
             Append(rec_running_loss,
                    [batch |-> i, pairs |-> RecLossPairs(BatchB(b), BatchL(b))])
    /\ pc' = "ent"
    /\ UNCHANGED <<call, ret, loopVars, cls_running_loss, ent_running_loss, rec_acc, cls_acc>>
    /\ UNCHANGED <<printVars, sentVars, genVars, ctorVars, peVars, decVars>>

\* lines 57-59
EvalEntLoss ==
    /\ call = "evaluate" /\ pc = "ent"
    /\ ent_running_loss' =
          Append(ent_running_loss, [batch |-> i, n |-> BatchB(data_iter[i + 1])])
    /\ pc' = "acc"
    /\ UNCHANGED <<call, ret, loopVars, cls_running_loss, rec_running_loss, rec_acc, cls_acc>>
    /\ UNCHANGED <<printVars, sentVars, genVars, ctorVars, peVars, decVars>>

\* lines 61-67, then back to the for statement with the next index
EvalAccuracy ==
    /\ call = "evaluate" /\ pc = "acc"
    /\ LET b == data_iter[i + 1]
       IN  /\ rec_acc' = Append(rec_acc,
                                [batch |-> i, pairs |-> RecAccPairs(BatchB(b), BatchL(b))])
           /\ cls_acc' = Append(cls_acc, [batch |-> i, n |-> BatchB(b)])
    /\ i' = i + 1
    /\ pc' = "loop"
    /\ UNCHANGED <<call, ret, data_iter, TEST_MAX_BATCH_SIZE, limit, training,
                   grad_enabled, no_grad>>
    /\ UNCHANGED <<cls_running_loss, rec_running_loss, ent_running_loss>>
    /\ UNCHANGED <<printVars, sentVars, genVars, ctorVars, peVars, decVars>>

\* a model, a criterion or a tensor operation of the batch raises: the
\* exception leaves the with block and evaluate
EvalRaise ==
    /\ call = "evaluate" /\ pc \in {"cls", "rec", "ent", "acc"}
    /\ no_grad' = NoGradLeave(no_grad, "raise")
    /\ grad_enabled' = GradAfterLeave(no_grad, grad_enabled, "raise")
    /\ ret' = Raised("Exception")
    /\ pc' = "done"
    /\ UNCHANGED <<call, data_iter, TEST_MAX_BATCH_SIZE, limit, i, training>>
    /\ UNCHANGED <<printVars, sentVars, accVars, genVars, ctorVars, peVars, decVars>>

\* lines 69-74: the metrics are logged and rec_acc is returned
EvalFinalize ==
    /\ call = "evaluate" /\ pc = "log"
    /\ ret' = Ok(rec_acc)
    /\ pc' = "done"
    /\ UNCHANGED <<call, printVars, sentVars, loopVars, accVars, genVars,
                   ctorVars, peVars, decVars>>

-----------------------------------------------------------------------------
(* generate_sentences, src/evaluate.py:165-217                             *)

\* tensor.bool(), ~ on a bool tensor, .long()
ToBool(v) == v # 0

LogicalNot(b) == ~b

ToLong(b) == IF b THEN 1 ELSE 0

\* ~ on a uint8 tensor: the bitwise complement
FlipByte(label) == 255 - label

\* line 205 (and line 128): (~labels.bool()).long(), one label
Flip(label) == ToLong(LogicalNot(ToBool(label)))

FlipAll(labels) == [k \in 1..Len(labels) |-> Flip(labels[k])]

\* argmax of model_gen(src, src_mask, neg_labels): the network is external; the
\* function taken here answers with the style label at position 0 and copies
\* the source behind it, so its output has the shape of src and depends on
\* both arguments
ModelGenArgmax(src, neg_labels) ==
    [b \in 1..Len(src) |->
        [j \in 1..Len(src[b]) |-> IF j = 1 THEN neg_labels[b] ELSE src[b][j]]]

\* lines 174-181, one sample: cut at the first eos_idx, then join the words
SampleText(sample) ==
    LET end_id == Where1(sample, eos_idx, 1)
        kept   == IF Len(end_id) > 1 THEN Take(sample, end_id[1])
                  ELSE IF Len(end_id) = 1 THEN Take(sample, end_id[1])
                  ELSE sample
    IN  Join([k \in 1..Len(kept) |-> id2word(kept[k])])

\* only the samples with a non-empty text are appended
tensor2textSkipEmpty(tensor) ==
    LET texts == [k \in 1..Len(tensor) |-> SampleText(tensor[k])]
    IN  Flatten([k \in 1..Len(texts) |-> IF texts[k] = "" THEN <<>> ELSE <<texts[k]>>])

\* lines 174-182: one text per sample, in the order of the batch
tensor2text(tensor) == [k \in 1..Len(tensor) |-> SampleText(tensor[k])]

\* the flipped labels collected in place of the originals
CollectedNegated(labels, neg_labels) == neg_labels

\* line 214: what is appended to test_original_labels
CollectedLabels(labels, neg_labels) == labels

\* line 215: the limit ends the loop after the batch with index limit - 1
LimitReached(lim, idx) == Truthy(lim) /\ idx = lim.v - 1

\* generate_sentences is called directly, or by print_generated_test_samples
GenCalls == {"generate_sentences", "print_generated_test_samples"}

GenBegin ==
    /\ \/ call = "generate_sentences" /\ pc = "start"
       \/ call = "print_generated_test_samples" /\ pc = "generate"
    /\ training' = FALSE
    /\ test_generated_sentences' = <<>>
    /\ test_original_sentences' = <<>>
    /\ test_original_labels' = <<>>
    /\ model_calls' = <<>>
    /\ no_grad' = NoGradEnter(grad_enabled)
    /\ grad_enabled' = FALSE
    /\ i' = 0
    /\ pc' = "loop"
    /\ UNCHANGED <<call, ret, data_iter, TEST_MAX_BATCH_SIZE, limit>>
    /\ UNCHANGED <<printVars, sentVars, accVars, ctorVars, peVars, decVars>>

\* the for statement: take batch i, or leave the loop and the scope
GenNext ==
    /\ call \in GenCalls /\ pc = "loop"
    /\ IF i < Len(data_iter)
       THEN /\ pc' = "batch"
            /\ UNCHANGED <<no_grad, grad_enabled>>
       ELSE /\ pc' = "return"
            /\ no_grad' = NoGradLeave(no_grad, "exhausted")
            /\ grad_enabled' = GradAfterLeave(no_grad, grad_enabled, "exhausted")
    /\ UNCHANGED <<call, ret, data_iter, TEST_MAX_BATCH_SIZE, limit, i, training>>
    /\ UNCHANGED <<printVars, sentVars, accVars, genVars, ctorVars, peVars, decVars>>

\* lines 197-216: one pass through the loop body
GenBatch ==
    /\ call \in GenCalls /\ pc = "batch"
    /\ LET src        == data_iter[i + 1].text
           labels     == data_iter[i + 1].label
           neg_labels == FlipAll(labels)
           preds      == ModelGenArgmax(src, neg_labels)
       IN  /\ model_calls' = Append(model_calls, neg_labels)
           /\ test_generated_sentences' = test_generated_sentences \o tensor2text(preds)
           /\ test_original_sentences' = test_original_sentences \o tensor2text(src)
           /\ test_original_labels' =
                 test_original_labels \o CollectedLabels(labels, neg_labels)
    /\ IF LimitReached(limit, i)
       THEN /\ pc' = "return"
            /\ i' = i
            /\ no_grad' = NoGradLeave(no_grad, "break")
            /\ grad_enabled' = GradAfterLeave(no_grad, grad_enabled, "break")
       ELSE /\ pc' = "loop"
            /\ i' = i + 1
            /\ UNCHANGED <<no_grad, grad_enabled>>
    /\ UNCHANGED <<call, ret, data_iter, TEST_MAX_BATCH_SIZE, limit, training>>
    /\ UNCHANGED <<printVars, sentVars, accVars, ctorVars, peVars, decVars>>

\* the model or a tensor operation of the batch raises before anything is
\* collected: the exception leaves the with block and generate_sentences
GenRaise ==
    /\ call \in GenCalls /\ pc = "batch"
    /\ no_grad' = NoGradLeave(no_grad, "raise")
    /\ grad_enabled' = GradAfterLeave(no_grad, grad_enabled, "raise")
    /\ ret' = Raised("Exception")
    /\ pc' = "done"
    /\ UNCHANGED <<call, data_iter, TEST_MAX_BATCH_SIZE, limit, i, training>>
    /\ UNCHANGED <<printVars, sentVars, accVars, genVars, ctorVars, peVars, decVars>>

\* line 217
GenReturn ==
    /\ call \in GenCalls /\ pc = "return"
    /\ ret' = Ok(<<test_generated_sentences, test_original_sentences, test_original_labels>>)
    /\ pc' = IF call = "generate_sentences" THEN "done" ELSE "print"
    /\ UNCHANGED <<call, printVars, sentVars, loopVars, accVars, genVars,
                   ctorVars, peVars, decVars>>

-----------------------------------------------------------------------------
(* print_generated_test_samples, src/evaluate.py:219-225                   *)

\* math.ceil(float(n) / bs)
CeilDiv(n, bs) == (n + bs - 1) \div bs

\* line 220, and the call of line 221 with num_batches as the limit
PrintBegin ==
    /\ call = "print_generated_test_samples" /\ pc = "start"
    /\ limit' = Some(CeilDiv(num_senteces, batch_size))
    /\ pc' = "generate"
    /\ UNCHANGED <<call, ret, data_iter, TEST_MAX_BATCH_SIZE, i, training,
                   grad_enabled, no_grad>>
    /\ UNCHANGED <<printVars, sentVars, accVars, genVars, ctorVars, peVars, decVars>>

\* lines 223-225: the first num_senteces pairs of the two lists are printed
PrintSamples ==
    /\ call = "print_generated_test_samples" /\ pc = "print"
    /\ LET gen == Take(ret.value[1], num_senteces)
           org == Take(ret.value[2], num_senteces)
       IN  stdout' = [k \in 1..Min(Len(gen), Len(org)) |->
                         [original |-> org[k], generated |-> gen[k]]]
    /\ ret' = Ok(<<>>)
    /\ pc' = "done"
    /\ UNCHANGED <<call, batch_size, num_senteces>>
    /\ UNCHANGED <<sentVars, loopVars, accVars, genVars, ctorVars, peVars, decVars>>

PrintStep == PrintBegin \/ PrintSamples

-----------------------------------------------------------------------------
(* MultiHeadedAttention.__init__ and the two model builders,               *)
(* src/transformer_model.py:154-163, 306-322, 348-377                      *)

NoAttn == [built |-> FALSE, h |-> 0, d_k |-> 0]

\* no check of the head count
HeadsAnyWidth(dm, heads) == TRUE

\* line 157: assert d_model % h == 0
HeadsDivide(dm, heads) == dm % heads = 0

\* line 159: d_model // h
HeadDim(dm, heads) == dm \div heads

\* lines 126-131: pe[:, 0::2] takes ceil(d/2) columns and pe[:, 1::2] has
\* floor(d/2); the cosine assignment fits when the two agree or when the value
\* has one column to broadcast
PeTableBuilds(dm) == (dm + 1) \div 2 = dm \div 2 \/ (dm + 1) \div 2 = 1

Builders == {"make_encoder_decoder", "StyleTransformer"}

\* MultiHeadedAttention(h, d_model): alone, or as the first statement of a builder
MhaInit ==
    /\ call \in Builders \cup {"MultiHeadedAttention"} /\ pc = "start"
    /\ IF HeadsDivide(d_model, h)
       THEN /\ attn' = [built |-> TRUE, h |-> h, d_k |-> HeadDim(d_model, h)]
            /\ IF call \in Builders
               THEN pc' = "position" /\ UNCHANGED ret
               ELSE pc' = "done" /\ ret' = Ok(attn')
       ELSE /\ attn' = attn
            /\ pc' = "done"
            /\ ret' = Raised("AssertionError")
    /\ UNCHANGED <<call, d_model, h>>
    /\ UNCHANGED <<printVars, sentVars, loopVars, accVars, genVars, peVars, decVars>>

\* the rest of the builder: PositionalEncoding(d_model, dropout), then the
\* layers, which copy attn; the model returned carries d_model and the heads
BuildRest ==
    /\ call \in Builders /\ pc = "position"
    /\ ret' = IF PeTableBuilds(d_model)
              THEN Ok([d_model |-> d_model, h |-> attn.h, d_k |-> attn.d_k])
              ELSE Raised("RuntimeError")
    /\ pc' = "done"
    /\ UNCHANGED <<call, printVars, sentVars, loopVars, accVars, genVars,
                   ctorVars, peVars, decVars>>

-----------------------------------------------------------------------------
(* PositionalEncoding, src/transformer_model.py:121-137, for d_model = 2:  *)
(* row p of the table is (sin p, cos p), kept here in hundredths.  The     *)
(* module is in inference mode, where dropout returns its input.           *)

SinCos100 ==
    << <<0, 100>>, <<84, 54>>, <<91, -42>>, <<14, -99>>,
       <<-76, -65>>, <<-96, 28>>, <<-28, 96>>, <<66, 75>> >>

\* lines 126-133: the buffer of max_len rows
PeTable(max_len) == [p \in 1..max_len |-> SinCos100[p]]

AddRow(a, b) == <<a[1] + b[1], a[2] + b[2]>>

\* self.pe[:, :x.size(1)]: a slice stops at the end of the table
PeSlice(table, L) == Take(table, L)

\* x + slice along the sequence axis, with torch's broadcasting: equal
\* lengths add row by row, a length of 1 is stretched, anything else raises
BroadcastAdd(xs, rows) ==
    IF Len(xs) = Len(rows)
    THEN Ok([p \in 1..Len(xs) |-> AddRow(xs[p], rows[p])])
    ELSE IF Len(rows) = 1
    THEN Ok([p \in 1..Len(xs) |-> AddRow(xs[p], rows[1])])
    ELSE IF Len(xs) = 1
    THEN Ok([p \in 1..Len(rows) |-> AddRow(xs[1], rows[p])])
    ELSE Raised("RuntimeError")

\* lines 135-137
PeForwardResult(table, xs) == BroadcastAdd(xs, PeSlice(table, Len(xs)))

XRows == {<<0, 0>>, <<50, -50>>}

PeForward ==
    /\ call = "PositionalEncoding.forward" /\ pc = "start"
    /\ ret' = PeForwardResult(pe, x)
    /\ pc' = "done"
    /\ UNCHANGED <<call, printVars, sentVars, loopVars, accVars, genVars,
                   ctorVars, peVars, decVars>>

-----------------------------------------------------------------------------
(* StyleDecoder.forward, src/transformer_model.py:279-298.  A vector is a  *)
(* number: encoder state (b, j) is 10*b + j, the style vector of label s   *)
(* is 100 + s, the embedding of id t at position j is 1000 + 10*t + j.     *)

\* self.style_embed(label)
StyleEmbed(s) == 100 + s

\* self.src_embed(tgt): Embeddings, then PositionalEncoding
SrcEmbed(ids) == [j \in 1..Len(ids) |-> 1000 + 10 * ids[j] + (j - 1)]

\* lines 282-287: style_preds of shape (B,) embeds to (B, D) and unsqueeze(1)
\* makes it (B, 1, D); a 0-d style_preds embeds to (D,), unsqueeze(1) makes it
\* (D, 1), and the rank-2 branch turns that into (1, 1, D)
AddEmbedding(sp) ==
    IF sp.rank = 1
    THEN [b \in 1..Len(sp.labels) |-> <<StyleEmbed(sp.labels[b])>>]
    ELSE << <<StyleEmbed(sp.labels[1])>> >>

\* the style vector put behind the sequence (as decode_with_style does)
StyleAppended(add, seq) == DropLast(seq \o add)

\* lines 292-293 and 295-296, one example: cat((add, seq), 1)[:, :-1, :]
StylePrepended(add, seq) == DropLast(add \o seq)

EncStates(B, L) == [b \in 1..B |-> [j \in 1..L |-> 10 * (b - 1) + (j - 1)]]

StylePredInputs(B) ==
    {[rank |-> 1, labels |-> ls] : ls \in [1..B -> Labels]}
        \cup {[rank |-> 0, labels |-> <<s>>] : s \in Labels}

DecForward ==
    /\ call = "StyleDecoder.forward" /\ pc = "start"
    /\ LET add == AddEmbedding(style_preds)
           emb == [b \in 1..Len(tgt) |-> SrcEmbed(tgt[b])]
       IN  \* torch.cat wants the same batch size on both sides
           IF Len(add) = Len(enc_out) /\ Len(add) = Len(emb)
           THEN /\ memory' = [b \in 1..Len(enc_out) |-> StylePrepended(add[b], enc_out[b])]
                /\ tgt_modified' = [b \in 1..Len(emb) |-> StylePrepended(add[b], emb[b])]
                \* the log-probabilities have the shape of tgt_modified
                /\ ret' = Ok([b \in 1..Len(emb) |-> Len(tgt_modified'[b])])
           ELSE /\ UNCHANGED <<memory, tgt_modified>>
                /\ ret' = Raised("RuntimeError")
    /\ pc' = "done"
    /\ UNCHANGED <<call, enc_out, style_preds, tgt>>
    /\ UNCHANGED <<printVars, sentVars, loopVars, accVars, genVars, ctorVars, peVars>>

-----------------------------------------------------------------------------
(* The initial states: one call, its arguments drawn from the input sets.  *)

IdleSent ==
    /\ sent_as_np = [kind |-> "ndarray", ndim |-> 1, data |-> <<>>]
    /\ eos_id = None

IdleLoop ==
    /\ data_iter = <<>> /\ TEST_MAX_BATCH_SIZE = None /\ limit = None
    /\ grad_enabled = TRUE

IdlePrint == batch_size = 1 /\ num_senteces = 0

IdleCtor == d_model = 1 /\ h = 1

IdlePe == pe = <<>> /\ x = <<>>

IdleDec == enc_out = <<>> /\ style_preds = [rank |-> 1, labels |-> <<>>] /\ tgt = <<>>

InitSent2Str ==
    /\ call = "sent2str"
    /\ sent_as_np \in FlatInputs \cup MatrixInputs
    /\ eos_id \in EosInputs
    /\ IdleLoop /\ IdleCtor /\ IdlePe /\ IdleDec /\ IdlePrint

InitEvaluate ==
    /\ call = "evaluate"
    /\ data_iter \in EvalStreams
    /\ TEST_MAX_BATCH_SIZE \in CapInputs
    /\ limit = None
    /\ grad_enabled \in BOOLEAN
    /\ IdleSent /\ IdleCtor /\ IdlePe /\ IdleDec /\ IdlePrint

InitGenerate ==
    /\ call = "generate_sentences"
    /\ data_iter \in GenStreams
    /\ limit \in CapInputs
    /\ TEST_MAX_BATCH_SIZE = None
    /\ grad_enabled \in BOOLEAN
    /\ IdleSent /\ IdleCtor /\ IdlePe /\ IdleDec /\ IdlePrint

InitPrint ==
    /\ call = "print_generated_test_samples"
    /\ \E bs \in BatchSizes, d \in SeqsUpTo(GenExamples, MaxExamples) :
          /\ data_iter = Batches(d, bs)
          /\ batch_size = bs
    /\ num_senteces \in 0..(MaxExamples + 1)
    /\ limit = None
    /\ TEST_MAX_BATCH_SIZE = None
    /\ grad_enabled = TRUE
    /\ IdleSent /\ IdleCtor /\ IdlePe /\ IdleDec

InitCtor ==
    /\ call \in Builders \cup {"MultiHeadedAttention"}
    /\ d_model \in 1..MaxD
    /\ h \in 1..MaxH
    /\ IdleSent /\ IdleLoop /\ IdlePe /\ IdleDec /\ IdlePrint

InitPe ==
    /\ call = "PositionalEncoding.forward"
    /\ \E max_len \in 1..MaxPeLen : pe = PeTable(max_len)
    /\ x \in SeqsUpTo(XRows, MaxPeLen + 1)
    /\ IdleSent /\ IdleLoop /\ IdleCtor /\ IdleDec /\ IdlePrint

InitDec ==
    /\ call = "StyleDecoder.forward"
    /\ \E B \in BatchSizes, L \in 0..MaxSeqLen :
          /\ enc_out = EncStates(B, L)
          /\ tgt \in [1..B -> [1..L -> {0, 2}]]
          /\ style_preds \in StylePredInputs(B)
    /\ IdleSent /\ IdleLoop /\ IdleCtor /\ IdlePe /\ IdlePrint

Init ==
    /\ pc = "start"
    /\ ret = NoRet
    /\ i = 0
    /\ training = TRUE
    /\ no_grad = NoGradIdle
    /\ cls_running_loss = <<>> /\ rec_running_loss = <<>> /\ ent_running_loss = <<>>
    /\ rec_acc = <<>> /\ cls_acc = <<>>
    /\ model_calls = <<>>
    /\ test_generated_sentences = <<>>
    /\ test_original_sentences = <<>>
    /\ test_original_labels = <<>>
    /\ stdout = <<>>
    /\ attn = NoAttn
    /\ memory = <<>> /\ tgt_modified = <<>>
    /\ \/ InitSent2Str
       \/ InitEvaluate
       \/ InitGenerate
       \/ InitPrint
       \/ InitCtor
       \/ InitPe
       \/ InitDec

EvalStep ==
    \/ EvalBegin \/ EvalNext \/ EvalClsLoss \/ EvalRecLoss \/ EvalEntLoss
    \/ EvalAccuracy \/ EvalRaise \/ EvalFinalize

GenStep == GenBegin \/ GenNext \/ GenBatch \/ GenRaise \/ GenReturn

Next ==
    \/ Sent2Str
    \/ EvalStep
    \/ GenStep
    \/ PrintStep
    \/ MhaInit \/ BuildRest
    \/ PeForward
    \/ DecForward

Spec == Init /\ [][Next]_vars

\* the calls of evaluate alone; a call that can take a step takes one (the
\* interpreter does not stall between two statements)
EvalInit == Init /\ call = "evaluate"

EvalFairSpec == EvalInit /\ [][EvalStep]_vars /\ WF_vars(EvalStep)

-----------------------------------------------------------------------------
(* Properties.                                                             *)

Sent2StrDone == call = "sent2str" /\ pc = "done"

\* the ids before the first occurrence of e, all of them when e does not occur
BeforeFirst(data, e) ==
    IF \E k \in 1..Len(data) : data[k] = e
    THEN LET first == CHOOSE k \in 1..Len(data) :
                          data[k] = e /\ \A m \in 1..(k - 1) : data[m] # e
         IN  SubSeq(data, 1, first - 1)
    ELSE data

WordsOf(ids) == [k \in 1..Len(ids) |-> id2word(ids[k])]

\* C1: for every 1-D id array and every eos id, sent2str returns the joined
\* tokens of exactly the ids before the first eos (all ids when eos does not
\* occur, or when no eos id is given).
C1_TruncatesAtFirstEos ==
    (Sent2StrDone /\ sent_as_np.kind = "ndarray" /\ sent_as_np.ndim = 1) =>
        /\ ret.status = "ok"
        /\ ret.value = Join(WordsOf(IF eos_id.isNone THEN sent_as_np.data
                                    ELSE BeforeFirst(sent_as_np.data, eos_id.v)))

AccumulatorsUntouched ==
    /\ cls_running_loss = <<>> /\ rec_running_loss = <<>> /\ ent_running_loss = <<>>
    /\ rec_acc = <<>> /\ cls_acc = <<>>

\* C2: with params.TEST_MAX_BATCH_SIZE set to 0, evaluate processes no batch:
\* none of the five accumulators ever receives an update.
C2_CapZeroProcessesNothing ==
    (call = "evaluate" /\ TEST_MAX_BATCH_SIZE = Some(0)) => AccumulatorsUntouched

BatchesOf(acc) == [k \in 1..Len(acc) |-> acc[k].batch]

\* the number of batches evaluate is to process under cap K >= 1 or no cap
EvalExpected ==
    IF TEST_MAX_BATCH_SIZE.isNone THEN Len(data_iter)
    ELSE Min(TEST_MAX_BATCH_SIZE.v, Len(data_iter))

EvalReturned == call = "evaluate" /\ pc = "done" /\ ret.status = "ok"

\* C3: evaluate terminates on every finite stream; with a cap K >= 1 no
\* accumulator is ever updated for a batch of index >= K, and a call that
\* returns has processed exactly the first min(K, n) batches in stream order
\* (all n without a cap) and returns the reconstruction-accuracy accumulator.
C3_EvaluateTerminatesExact ==
    /\ (call = "evaluate") => <>(pc = "done")
    /\ [](  (call = "evaluate" /\ Truthy(TEST_MAX_BATCH_SIZE)) =>
               \A acc \in {cls_running_loss, rec_running_loss, ent_running_loss,
                           rec_acc, cls_acc} :
                   \A k \in 1..Len(acc) : acc[k].batch < TEST_MAX_BATCH_SIZE.v)
    /\ [](  (EvalReturned /\ (TEST_MAX_BATCH_SIZE.isNone \/ TEST_MAX_BATCH_SIZE.v >= 1)) =>
               /\ \A acc \in {cls_running_loss, rec_running_loss, ent_running_loss,
                              rec_acc, cls_acc} :
                      BatchesOf(acc) = [k \in 1..EvalExpected |-> k - 1]
               /\ ret.value = rec_acc)

\* a capped stream: the cap is below the number of batches and ended the loop
C3_Witness ==
    /\ EvalReturned
    /\ ~TEST_MAX_BATCH_SIZE.isNone
    /\ TEST_MAX_BATCH_SIZE.v >= 1
    /\ TEST_MAX_BATCH_SIZE.v < Len(data_iter)
    /\ Len(rec_acc) = TEST_MAX_BATCH_SIZE.v

\* the labels of the first m batches of the stream, in order
StreamLabels(m) == Flatten([k \in 1..m |-> data_iter[k].label])

\* C4: after any number of processed batches the collected original labels
\* are the stream's labels, in batch order and unaltered, while the model was
\* called with the flipped labels; the returned list is that list.
C4_OriginalLabelsUntouched ==
    (call = "generate_sentences") =>
        /\ test_original_labels = StreamLabels(Len(model_calls))
        /\ \A k \in 1..Len(model_calls) :
              /\ Len(model_calls[k]) = Len(data_iter[k].label)
              /\ \A b \in 1..Len(model_calls[k]) :
                    model_calls[k][b] # data_iter[k].label[b]
        /\ (pc = "done" /\ ret.status = "ok") => ret.value[3] = StreamLabels(Len(model_calls))

C4_Witness ==
    /\ call = "generate_sentences" /\ pc = "done" /\ ret.status = "ok"
    /\ Len(model_calls) >= 2
    /\ ret.value[3][1] = 1
    /\ model_calls[1][1] = 0
    /\ \E k \in 1..Len(ret.value[3]) : ret.value[3][k] = 0

\* C5: on binary labels the style flip is an involution: the label handed to
\* the model is the other label, 1 - label, and flipping it again gives the
\* original label back.
C5_FlipInvolution ==
    (call = "generate_sentences") =>
        /\ pc = "batch" =>
              \A b \in 1..Len(data_iter[i + 1].label) :
                  LET l == data_iter[i + 1].label[b]
                  IN  l \in {0, 1} /\ Flip(l) = 1 - l /\ Flip(Flip(l)) = l
        /\ \A k \in 1..Len(model_calls) : \A b \in 1..Len(model_calls[k]) :
              /\ model_calls[k][b] = 1 - data_iter[k].label[b]
              /\ Flip(model_calls[k][b]) = data_iter[k].label[b]

C5_Witness ==
    /\ call = "generate_sentences"
    /\ Len(model_calls) >= 1
    /\ Len(model_calls[1]) = 2
    /\ model_calls[1] = <<1, 0>>
    /\ data_iter[1].label = <<0, 1>>

\* a flat numeric sequence: a Python list of ids or a 1-D array of ids
IsFlatNumeric(arr) == arr.ndim = 1

\* C6 as stated: sent2str rejects, before producing any text, whatever is not
\* a flat numeric sequence, and accepts every flat numeric sequence.
C6_RejectsAllButFlat ==
    Sent2StrDone => (ret.status = "ok" <=> IsFlatNumeric(sent_as_np))

\* C6, amended: sent2str raises ValueError, before producing any text, exactly
\* when its input is not a numpy array (a flat Python list included); every
\* 1-D array of ids is accepted; the number of dimensions is not checked, and
\* a call that raises returns no text.
C6_RejectsAllButNdarray ==
    Sent2StrDone =>
        /\ ret.status = "ValueError" <=> sent_as_np.kind # "ndarray"
        /\ (sent_as_np.kind = "ndarray" /\ sent_as_np.ndim = 1) => ret.status = "ok"
        /\ ret.status # "ok" => ret.value = <<>>

C6_Witness ==
    /\ Sent2StrDone
    /\ sent_as_np.kind = "list"
    /\ Len(sent_as_np.data) = 2
    /\ ret.status = "ValueError"

CtorCalls == Builders \cup {"MultiHeadedAttention"}

\* C7: constructing the attention block fails fatally whenever D % H # 0 and
\* succeeds with d_k = D / H (H * d_k = D) whenever D % H = 0; no model comes
\* out of make_encoder_decoder or StyleTransformer with D not divisible by H.
C7_HeadsMustDivide ==
    (call \in CtorCalls /\ pc # "start") =>
        /\ d_model % h # 0 =>
              /\ ret.status = "AssertionError"
              /\ ~attn.built
              /\ pc = "done"
        /\ d_model % h = 0 =>
              /\ attn.built
              /\ attn.h = h
              /\ attn.h * attn.d_k = d_model
              /\ ret.status # "AssertionError"
        /\ (call \in Builders /\ ret.status = "ok") =>
              /\ d_model % h = 0
              /\ ret.value.h * ret.value.d_k = ret.value.d_model

C7_Witness ==
    /\ call = "make_encoder_decoder" /\ pc = "done"
    /\ d_model = 6 /\ h = 4
    /\ ret.status = "AssertionError"

PeDone == call = "PositionalEncoding.forward" /\ pc = "done"

\* C8: for every max_len >= 1, forward fails when the sequence is longer than
\* max_len; otherwise it succeeds and adds table row p to position p, and the
\* table stays as it was built.
C8_FailsBeyondMaxLen ==
    PeDone =>
        /\ Len(x) > Len(pe) => ret.status # "ok"
        /\ Len(x) <= Len(pe) =>
              /\ ret.status = "ok"
              /\ Len(ret.value) = Len(x)
              /\ \A p \in 1..Len(x) : ret.value[p] = AddRow(x[p], SinCos100[p])
        /\ pe = PeTable(Len(pe))

DecReturned == call = "StyleDecoder.forward" /\ pc = "done" /\ ret.status = "ok"

\* the style label of example b
StyleOf(b) == IF style_preds.rank = 1 THEN style_preds.labels[b] ELSE style_preds.labels[1]

\* C9: for memory and embedded target of length L >= 1, the modified memory
\* and the modified target have length L, both start with the example's style
\* vector, position i (1 <= i <= L-1) holds the original element i-1, and the
\* original last element is gone.
C9_StylePrependedLastDropped ==
    DecReturned =>
        \A b \in 1..Len(enc_out) :
            LET L   == Len(enc_out[b])
                emb == SrcEmbed(tgt[b])
            IN  L >= 1 =>
                  /\ Len(memory[b]) = L /\ Len(tgt_modified[b]) = L
                  /\ memory[b][1] = StyleEmbed(StyleOf(b))
                  /\ tgt_modified[b][1] = memory[b][1]
                  /\ \A j \in 2..L : /\ memory[b][j] = enc_out[b][j - 1]
                                     /\ tgt_modified[b][j] = emb[j - 1]
                  /\ \A j \in 1..L : /\ memory[b][j] # enc_out[b][L]
                                     /\ tgt_modified[b][j] # emb[L]

C9_Witness ==
    /\ DecReturned
    /\ Len(enc_out) = 2
    /\ Len(enc_out[1]) = 2
    /\ style_preds.labels = <<0, 1>>
    /\ memory[2] = <<101, 10>>

InBatch == pc \in {"loop", "cls", "rec", "ent", "acc", "batch"}

AfterLoop == pc \in {"log", "return", "done"}

\* C10: the no-gradient scope of evaluate and of generate_sentences is active
\* while batches are processed and released once the loop is left, whether
\* the stream ran out, the cap or limit broke the loop, or a batch raised; the
\* gradient mode is then what it was before the call.
C10_NoGradReleased ==
    (call \in {"evaluate", "generate_sentences"}) =>
        /\ InBatch => (no_grad.active /\ ~grad_enabled)
        /\ AfterLoop => (~no_grad.active /\ grad_enabled = no_grad.prev)

C10_Witness ==
    /\ call = "evaluate" /\ pc = "done"
    /\ ret.status = "Exception"
    /\ Len(rec_acc) >= 1
    /\ ~no_grad.active
    /\ grad_enabled

\* the batches evaluate has gone through completely
EvalCompleted == Len(cls_acc)

\* C11: in every evaluation batch of B sequences of length L the
\* reconstruction loss scores prediction j against source token j for all j
\* in 0..L-1 (B*L pairs), the reconstruction accuracy scores prediction j+1
\* against source token j for all j in 0..L-2 (B*(L-1) pairs), and each of
\* the five accumulators is updated exactly once per processed batch.
C11_LossUnshiftedAccuracyShifted ==
    (call = "evaluate") =>
        /\ \A k \in 1..Len(rec_running_loss) :
              LET B  == BatchB(data_iter[k])
                  L  == BatchL(data_iter[k])
                  ps == rec_running_loss[k].pairs
              IN  /\ Len(ps) = B * L
                  /\ {ps[n] : n \in 1..Len(ps)} =
                        {[pred |-> <<b, j>>, target |-> <<b, j>>] :
                            b \in 0..(B - 1), j \in 0..(L - 1)}
        /\ \A k \in 1..Len(rec_acc) :
              LET B  == BatchB(data_iter[k])
                  L  == BatchL(data_iter[k])
                  ps == rec_acc[k].pairs
              IN  /\ Len(ps) = B * (L - 1)
                  /\ {ps[n] : n \in 1..Len(ps)} =
                        {[pred |-> <<b, j + 1>>, target |-> <<b, j>>] :
                            b \in 0..(B - 1), j \in 0..(L - 2)}
        /\ \A acc \in {cls_running_loss, rec_running_loss, ent_running_loss,
                       rec_acc, cls_acc} :
              /\ \A k \in 1..Len(acc) : acc[k].batch = k - 1
              /\ Len(acc) \in {EvalCompleted, EvalCompleted + 1}
              /\ pc \in {"loop", "log"} => Len(acc) = i
              /\ (pc = "done" /\ ret.status = "ok") => Len(acc) = i

C11_Witness ==
    /\ call = "evaluate" /\ pc = "done" /\ ret.status = "ok"
    /\ Len(rec_acc) = 2
    /\ BatchB(data_iter[1]) = 2 /\ BatchL(data_iter[1]) = 2
    /\ Len(rec_running_loss[1].pairs) = 4
    /\ rec_acc[1].pairs = <<[pred |-> <<0, 1>>, target |-> <<0, 0>>],
                            [pred |-> <<1, 1>>, target |-> <<1, 0>>]>>

\* generate_sentences has left its loop normally
GenLoopLeft ==
    \/ pc \in {"return", "print"}
    \/ pc = "done" /\ ret.status = "ok"

\* model_gen was called for the first c batches of the stream, in order
FirstBatchesProcessed(c) ==
    /\ Len(model_calls) = c
    /\ c <= Len(data_iter)
    /\ \A k \in 1..c : model_calls[k] = FlipAll(data_iter[k].label)

\* C12: generate_sentences never processes more batches than its limit, limit
\* 0 included (and so print_generated_test_samples asked for 0 sentences
\* processes none); once the loop is left, a limit l >= 1 over n batches has
\* processed exactly the first min(l, n) batches and limit None all n.
C12_AtMostLimitBatches ==
    (call \in GenCalls /\ pc \notin {"start", "generate"}) =>
        /\ ~limit.isNone => Len(model_calls) <= limit.v
        /\ GenLoopLeft =>
              IF limit.isNone THEN FirstBatchesProcessed(Len(data_iter))
              ELSE IF limit.v >= 1
                   THEN FirstBatchesProcessed(Min(limit.v, Len(data_iter)))
                   ELSE FirstBatchesProcessed(0)

\* the examples of the first m batches of the stream, in stream order
StreamExamples(m) ==
    Flatten([k \in 1..m |->
                [b \in 1..BatchB(data_iter[k]) |->
                    [text |-> data_iter[k].text[b], label |-> data_iter[k].label[b]]]])

\* the text generated for one example on its own
GeneratedFor(ex) == SampleText(ModelGenArgmax(<<ex.text>>, <<Flip(ex.label)>>)[1])

IsPrefixOf(s, t) == Len(s) <= Len(t) /\ SubSeq(t, 1, Len(s)) = s

\* entry k of the three collections is example k of the batches processed
CollectionsAligned ==
    (call \in GenCalls) =>
        LET ex == StreamExamples(Len(model_calls)) IN
        /\ Len(test_generated_sentences) = Len(ex)
        /\ Len(test_original_sentences) = Len(ex)
        /\ Len(test_original_labels) = Len(ex)
        /\ \A k \in 1..Len(ex) :
              /\ test_original_sentences[k] = SampleText(ex[k].text)
              /\ test_original_labels[k] = ex[k].label
              /\ test_generated_sentences[k] = GeneratedFor(ex[k])
        /\ pc \in {"loop", "batch"} => Len(model_calls) = i

\* a step of generate_sentences only appends to the three collections
CollectionsAppendOnly ==
    (call \in GenCalls) =>
        /\ IsPrefixOf(test_generated_sentences, test_generated_sentences')
        /\ IsPrefixOf(test_original_sentences, test_original_sentences')
        /\ IsPrefixOf(test_original_labels, test_original_labels')
        /\ Len(test_generated_sentences') = Len(test_original_sentences')
        /\ Len(test_original_sentences') = Len(test_original_labels')

\* C13: after every completed batch iteration of generate_sentences the
\* generated sentences, the original sentences and the original labels have
\* the same length, the number of examples in the batches processed so far;
\* entry k of all three belongs to example k of the stream; and every step
\* leaves the earlier entries as they were, adding only at the end.
C13_CollectionsAlignedAppendOnly ==
    /\ []CollectionsAligned
    /\ [][CollectionsAppendOnly]_vars

C13_Witness ==
    /\ call = "generate_sentences" /\ pc = "loop"
    /\ Len(model_calls) = 2 /\ i = 2
    /\ Len(test_original_labels) = 3
    /\ test_original_sentences = <<"a <unk>", "a", "a">>
    /\ test_original_labels = <<1, 0, 1>>
    /\ test_generated_sentences = <<"<unk> <unk>", "", "<unk>">>

====
